---- MODULE Spec2Model ----
(***************************************************************************)
(* Model of duration-extender (src/src/lib.rs): the trait DurationExt and  *)
(* its four implementations for u64, u32, i64 and i32.                     *)
(*                                                                         *)
(* 64-bit quantities do not fit the model checker's machine integers, so   *)
(* an unsigned integer is a little-endian sequence of limbs in radix Base  *)
(* with no leading zero limb (zero is the empty sequence).  A value of a   *)
(* numeric kind is a record [neg, mag]: a sign and a magnitude.            *)
(***************************************************************************)
EXTENDS Integers, Sequences, FiniteSets, TLC

VARIABLES kind, n, op, outcome, terms, total

vars == <<kind, n, op, outcome, terms, total>>

----------------------------------------------------------------------------
(* Exact arithmetic on limb sequences.                                     *)

Base == 1000

RECURSIVE Norm(_)
Norm(s) ==
    IF s = <<>> THEN <<>>
    ELSE IF s[Len(s)] = 0 THEN Norm(SubSeq(s, 1, Len(s) - 1))
    ELSE s

RECURSIVE BigOfInt(_)
BigOfInt(i) ==
    IF i = 0 THEN <<>> ELSE <<i % Base>> \o BigOfInt(i \div Base)

RECURSIVE AddC(_, _, _)
AddC(a, b, c) ==
    IF a = <<>> /\ b = <<>> THEN BigOfInt(c)
    ELSE LET x == IF a = <<>> THEN 0 ELSE Head(a)
             y == IF b = <<>> THEN 0 ELSE Head(b)
             t == x + y + c
         IN  <<t % Base>> \o AddC(IF a = <<>> THEN <<>> ELSE Tail(a),
                                  IF b = <<>> THEN <<>> ELSE Tail(b),
                                  t \div Base)

BigAdd(a, b) == Norm(AddC(a, b, 0))

RECURSIVE SubB(_, _, _)
SubB(a, b, borrow) ==
    IF a = <<>> THEN <<>>
    ELSE LET y == IF b = <<>> THEN 0 ELSE Head(b)
             t == Head(a) - y - borrow
         IN  <<t % Base>> \o SubB(Tail(a),
                                  IF b = <<>> THEN <<>> ELSE Tail(b),
                                  IF t < 0 THEN 1 ELSE 0)

RECURSIVE BigLess(_, _)
BigLess(a, b) ==
    IF Len(a) # Len(b) THEN Len(a) < Len(b)
    ELSE IF a = <<>> THEN FALSE
    ELSE LET k == Len(a)
         IN  IF a[k] # b[k] THEN a[k] < b[k]
             ELSE BigLess(SubSeq(a, 1, k - 1), SubSeq(b, 1, k - 1))

BigLE(a, b) == a = b \/ BigLess(a, b)

\* a - b, for b <= a
BigSub(a, b) == Norm(SubB(a, b, 0))

RECURSIVE MulC(_, _, _)
MulC(s, m, c) ==
    IF s = <<>> THEN BigOfInt(c)
    ELSE LET t == Head(s) * m + c
         IN  <<t % Base>> \o MulC(Tail(s), m, t \div Base)

\* s * m, for a multiplier 0 <= m < 2^21
BigMulSmall(s, m) == Norm(MulC(s, m, 0))

RECURSIVE DivR(_, _, _)
DivR(s, d, r) ==
    IF s = <<>> THEN <<>>
    ELSE LET k == Len(s)
             t == r * Base + s[k]
         IN  DivR(SubSeq(s, 1, k - 1), d, t % d) \o <<t \div d>>

\* floor(s / d), for a divisor 0 < d < 2^21
BigDivSmall(s, d) == Norm(DivR(s, d, 0))

\* floor(s / Base^k)
BigDivBase(s, k) == IF Len(s) <= k THEN <<>> ELSE SubSeq(s, k + 1, Len(s))

RECURSIVE IntOfBig(_)
IntOfBig(s) == IF s = <<>> THEN 0 ELSE Head(s) + Base * IntOfBig(Tail(s))

\* s mod Base^k as a machine integer, for k <= 3
BigModBase(s, k) == IntOfBig(IF Len(s) <= k THEN s ELSE SubSeq(s, 1, k))

\* s * Base^k
BigMulBase(s, k) == IF s = <<>> THEN <<>> ELSE [i \in 1..k |-> 0] \o s

\* 2^e
RECURSIVE Pow2(_)
Pow2(e) ==
    IF e < 16 THEN BigOfInt(2 ^ e) ELSE BigMulSmall(Pow2(e - 16), 2 ^ 16)

One == <<1>>

U64_MAX == BigSub(Pow2(64), One)
U32_MAX == BigSub(Pow2(32), One)
I64_MAX == BigSub(Pow2(63), One)
I32_MAX == BigSub(Pow2(31), One)

----------------------------------------------------------------------------
(* std::time::Duration as the source uses it: whole seconds (u64) and a    *)
(* sub-second part in nanoseconds (u32, below NANOS_PER_SEC).              *)

from_secs(secs) == [secs |-> secs, nanos |-> 0]

\* secs = millis / 1000, nanos = (millis % 1000) * 1_000_000
from_millis(millis) ==
    [secs |-> BigDivBase(millis, 1), nanos |-> BigModBase(millis, 1) * 1000000]

\* secs = micros / 1_000_000, nanos = (micros % 1_000_000) * 1000
from_micros(micros) ==
    [secs |-> BigDivBase(micros, 2), nanos |-> BigModBase(micros, 2) * 1000]

\* secs = nanos / 1_000_000_000, nanos = nanos % 1_000_000_000
from_nanos(nanos) ==
    [secs |-> BigDivBase(nanos, 3), nanos |-> BigModBase(nanos, 3)]

\* secs * 1000 + nanos / 1_000_000, as u128
as_millis(d) == BigAdd(BigMulBase(d.secs, 1), BigOfInt(d.nanos \div 1000000))

----------------------------------------------------------------------------
(* Outcomes of a call: a Duration, or a panic from one of the two sites.   *)

Ok(d) == [tag |-> "Ok", dur |-> d]

Panic(err, msg) == [tag |-> "Panic", err |-> err, msg |-> msg]

NoOutcome == [tag |-> "None"]

Some(x) == [some |-> TRUE, val |-> x]

None == [some |-> FALSE]

\* u64::checked_mul with the wrong width: the product is held to the i64 range
checked_mul_i64(a, m) ==
    LET p == BigMulSmall(a, m)
    IN  IF BigLE(p, I64_MAX) THEN Some(p) ELSE None

\* u64::checked_mul: None when the product leaves the unsigned 64-bit range
checked_mul(a, m) ==
    LET p == BigMulSmall(a, m)
    IN  IF BigLE(p, U64_MAX) THEN Some(p) ELSE None

\* `self as u64`: zero extension of an unsigned value, sign extension and
\* two's complement reinterpretation of a signed one
as_u64(self) == IF self.neg THEN BigSub(Pow2(64), self.mag) ELSE self.mag

\* `self >= 0`
ge0(self) == ~self.neg

----------------------------------------------------------------------------
(* Text: a string is its sequence of characters.                          *)

DigitChars == <<"0", "1", "2", "3", "4", "5", "6", "7", "8", "9">>

Digit(d) == DigitChars[d + 1]

Limb3(l) == <<Digit(l \div 100), Digit((l \div 10) % 10), Digit(l % 10)>>

RECURSIVE IntDigits(_)
IntDigits(i) ==
    IF i < 10 THEN <<Digit(i)>> ELSE IntDigits(i \div 10) \o <<Digit(i % 10)>>

RECURSIVE LowLimbs(_)
LowLimbs(s) == IF s = <<>> THEN <<>> ELSE LowLimbs(Tail(s)) \o Limb3(Head(s))

Decimal(mag) ==
    IF mag = <<>> THEN <<"0">>
    ELSE IntDigits(mag[Len(mag)]) \o LowLimbs(SubSeq(mag, 1, Len(mag) - 1))

\* the `{}` of format! and assert! applied to an integer
Display(self) == (IF self.neg THEN <<"-">> ELSE <<>>) \o Decimal(self.mag)

\* "duration cannot be negative: got "
S_negative_got ==
    <<"d", "u", "r", "a", "t", "i", "o", "n", " ", "c", "a", "n", "n", "o", "t", " ", "b", "e", " ", "n", "e", "g", "a", "t", "i", "v", "e", ":", " ", "g", "o", "t", " ">>

\* "duration value "
S_duration_value ==
    <<"d", "u", "r", "a", "t", "i", "o", "n", " ", "v", "a", "l", "u", "e", " ">>

\* " overflows u64 seconds capacity"
S_overflows ==
    <<" ", "o", "v", "e", "r", "f", "l", "o", "w", "s", " ", "u", "6", "4", " ", "s", "e", "c", "o", "n", "d", "s", " ", "c", "a", "p", "a", "c", "i", "t", "y">>

S_seconds == <<" ", "s", "e", "c", "o", "n", "d", "s">>

S_minutes == <<" ", "m", "i", "n", "u", "t", "e", "s">>

S_hours == <<" ", "h", "o", "u", "r", "s">>

S_days == <<" ", "d", "a", "y", "s">>

S_weeks == <<" ", "w", "e", "e", "k", "s">>

S_milliseconds == <<" ", "m", "i", "l", "l", "i", "s", "e", "c", "o", "n", "d", "s">>

S_microseconds == <<" ", "m", "i", "c", "r", "o", "s", "e", "c", "o", "n", "d", "s">>

S_nanoseconds == <<" ", "n", "a", "n", "o", "s", "e", "c", "o", "n", "d", "s">>

negative_message(self, unit) == S_negative_got \o Display(self) \o unit

overflow_message(self, unit) ==
    S_duration_value \o Display(self) \o unit \o S_overflows

\* Option::expect on the checked product, then Duration::from_secs on it
expect(opt, msg) ==
    IF opt.some THEN Ok(from_secs(opt.val)) ELSE Panic("ArithmeticOverflow", msg)

----------------------------------------------------------------------------
(* impl DurationExt for u64 *)

u64_seconds(self) ==
    Ok(from_secs(self.mag))

u64_minutes(self) ==
    expect(checked_mul(self.mag, 60),
           overflow_message(self, S_minutes))

u64_hours(self) ==
    expect(checked_mul(self.mag, 3600),
           overflow_message(self, S_hours))

u64_days(self) ==
    expect(checked_mul(self.mag, 86400),
           overflow_message(self, S_days))

\* weeks with the digits of 604800 transposed
u64_weeks_typo(self) ==
    expect(checked_mul(self.mag, 640800),
           overflow_message(self, S_weeks))

u64_weeks(self) ==
    expect(checked_mul(self.mag, 604800),
           overflow_message(self, S_weeks))

\* milliseconds routed through a checked multiplication to microseconds
u64_milliseconds_checked(self) ==
    LET micros == checked_mul(self.mag, 1000)
    IN  IF micros.some THEN Ok(from_micros(micros.val))
        ELSE Panic("ArithmeticOverflow", overflow_message(self, S_milliseconds))

u64_milliseconds(self) ==
    Ok(from_millis(self.mag))

u64_microseconds(self) ==
    Ok(from_micros(self.mag))

u64_nanoseconds(self) ==
    Ok(from_nanos(self.mag))

(* impl DurationExt for u32 *)

u32_seconds(self) ==
    Ok(from_secs(as_u64(self)))

u32_minutes(self) ==
    expect(checked_mul(as_u64(self), 60),
           overflow_message(self, S_minutes))

u32_hours(self) ==
    expect(checked_mul(as_u64(self), 3600),
           overflow_message(self, S_hours))

u32_days(self) ==
    expect(checked_mul(as_u64(self), 86400),
           overflow_message(self, S_days))

\* weeks multiplied in 32 bits, before the widening
u32_weeks_narrow(self) ==
    LET p == BigMulSmall(self.mag, 604800)
    IN  IF BigLE(p, U32_MAX) THEN Ok(from_secs(p))
        ELSE Panic("ArithmeticOverflow", overflow_message(self, S_weeks))

u32_weeks(self) ==
    expect(checked_mul(as_u64(self), 604800),
           overflow_message(self, S_weeks))

u32_milliseconds(self) ==
    Ok(from_millis(as_u64(self)))

u32_microseconds(self) ==
    Ok(from_micros(as_u64(self)))

u32_nanoseconds(self) ==
    Ok(from_nanos(as_u64(self)))

(* impl DurationExt for i64 *)

i64_seconds(self) ==
    IF ~ge0(self) THEN Panic("NegativeInput", negative_message(self, S_seconds))
    ELSE Ok(from_secs(as_u64(self)))

\* minutes without the assert
i64_minutes_unasserted(self) ==
    expect(checked_mul(as_u64(self), 60),
           overflow_message(self, S_minutes))

i64_minutes(self) ==
    IF ~ge0(self) THEN Panic("NegativeInput", negative_message(self, S_minutes))
    ELSE expect(checked_mul(as_u64(self), 60),
                overflow_message(self, S_minutes))

\* hours whose assert message was copied from minutes
i64_hours_copied(self) ==
    IF ~ge0(self) THEN Panic("NegativeInput", negative_message(self, S_minutes))
    ELSE expect(checked_mul(as_u64(self), 3600),
                overflow_message(self, S_hours))

i64_hours(self) ==
    IF ~ge0(self) THEN Panic("NegativeInput", negative_message(self, S_hours))
    ELSE expect(checked_mul(as_u64(self), 3600),
                overflow_message(self, S_hours))

\* days with the digits of 86400 transposed
i64_days_typo(self) ==
    IF ~ge0(self) THEN Panic("NegativeInput", negative_message(self, S_days))
    ELSE expect(checked_mul(as_u64(self), 84600),
                overflow_message(self, S_days))

i64_days(self) ==
    IF ~ge0(self) THEN Panic("NegativeInput", negative_message(self, S_days))
    ELSE expect(checked_mul(as_u64(self), 86400),
                overflow_message(self, S_days))

i64_weeks(self) ==
    IF ~ge0(self) THEN Panic("NegativeInput", negative_message(self, S_weeks))
    ELSE expect(checked_mul(as_u64(self), 604800),
                overflow_message(self, S_weeks))

i64_milliseconds(self) ==
    IF ~ge0(self) THEN Panic("NegativeInput", negative_message(self, S_milliseconds))
    ELSE Ok(from_millis(as_u64(self)))

i64_microseconds(self) ==
    IF ~ge0(self) THEN Panic("NegativeInput", negative_message(self, S_microseconds))
    ELSE Ok(from_micros(as_u64(self)))

i64_nanoseconds(self) ==
    IF ~ge0(self) THEN Panic("NegativeInput", negative_message(self, S_nanoseconds))
    ELSE Ok(from_nanos(as_u64(self)))

(* impl DurationExt for i32 *)

\* seconds that folds the sign instead of asserting
i32_seconds_abs(self) ==
    Ok(from_secs(self.mag))

i32_seconds(self) ==
    IF ~ge0(self) THEN Panic("NegativeInput", negative_message(self, S_seconds))
    ELSE Ok(from_secs(as_u64(self)))

i32_minutes(self) ==
    IF ~ge0(self) THEN Panic("NegativeInput", negative_message(self, S_minutes))
    ELSE expect(checked_mul(as_u64(self), 60),
                overflow_message(self, S_minutes))

i32_hours(self) ==
    IF ~ge0(self) THEN Panic("NegativeInput", negative_message(self, S_hours))
    ELSE expect(checked_mul(as_u64(self), 3600),
                overflow_message(self, S_hours))

i32_days(self) ==
    IF ~ge0(self) THEN Panic("NegativeInput", negative_message(self, S_days))
    ELSE expect(checked_mul(as_u64(self), 86400),
                overflow_message(self, S_days))

i32_weeks(self) ==
    IF ~ge0(self) THEN Panic("NegativeInput", negative_message(self, S_weeks))
    ELSE expect(checked_mul(as_u64(self), 604800),
                overflow_message(self, S_weeks))

i32_milliseconds(self) ==
    IF ~ge0(self) THEN Panic("NegativeInput", negative_message(self, S_milliseconds))
    ELSE Ok(from_millis(as_u64(self)))

i32_microseconds(self) ==
    IF ~ge0(self) THEN Panic("NegativeInput", negative_message(self, S_microseconds))
    ELSE Ok(from_micros(as_u64(self)))

i32_nanoseconds(self) ==
    IF ~ge0(self) THEN Panic("NegativeInput", negative_message(self, S_nanoseconds))
    ELSE Ok(from_nanos(as_u64(self)))

----------------------------------------------------------------------------
(* The trait: a call n.unit() goes to the implementation for n's kind.     *)

Kinds == {"u64", "u32", "i64", "i32"}

seconds(k, self) ==
    CASE k = "u64" -> u64_seconds(self) [] k = "u32" -> u32_seconds(self)
      [] k = "i64" -> i64_seconds(self) [] k = "i32" -> i32_seconds(self)

minutes(k, self) ==
    CASE k = "u64" -> u64_minutes(self) [] k = "u32" -> u32_minutes(self)
      [] k = "i64" -> i64_minutes(self) [] k = "i32" -> i32_minutes(self)

hours(k, self) ==
    CASE k = "u64" -> u64_hours(self) [] k = "u32" -> u32_hours(self)
      [] k = "i64" -> i64_hours(self) [] k = "i32" -> i32_hours(self)

days(k, self) ==
    CASE k = "u64" -> u64_days(self) [] k = "u32" -> u32_days(self)
      [] k = "i64" -> i64_days(self) [] k = "i32" -> i32_days(self)

weeks(k, self) ==
    CASE k = "u64" -> u64_weeks(self) [] k = "u32" -> u32_weeks(self)
      [] k = "i64" -> i64_weeks(self) [] k = "i32" -> i32_weeks(self)

milliseconds(k, self) ==
    CASE k = "u64" -> u64_milliseconds(self) [] k = "u32" -> u32_milliseconds(self)
      [] k = "i64" -> i64_milliseconds(self) [] k = "i32" -> i32_milliseconds(self)

microseconds(k, self) ==
    CASE k = "u64" -> u64_microseconds(self) [] k = "u32" -> u32_microseconds(self)
      [] k = "i64" -> i64_microseconds(self) [] k = "i32" -> i32_microseconds(self)

nanoseconds(k, self) ==
    CASE k = "u64" -> u64_nanoseconds(self) [] k = "u32" -> u32_nanoseconds(self)
      [] k = "i64" -> i64_nanoseconds(self) [] k = "i32" -> i32_nanoseconds(self)

\* the values of each numeric kind
InRange(k, v) ==
    CASE k = "u64" -> ~v.neg /\ BigLE(v.mag, U64_MAX)
      [] k = "u32" -> ~v.neg /\ BigLE(v.mag, U32_MAX)
      [] k = "i64" -> BigLE(v.mag, IF v.neg THEN Pow2(63) ELSE I64_MAX)
      [] k = "i32" -> BigLE(v.mag, IF v.neg THEN Pow2(31) ELSE I32_MAX)

\* const MAX_FOR_MINUTES: u64 = u64::MAX / 60
MAX_FOR_MINUTES == BigDivSmall(U64_MAX, 60)

\* const OVERFLOW_MINUTES: u64 = MAX_FOR_MINUTES.saturating_add(1)
OVERFLOW_MINUTES ==
    LET s == BigAdd(MAX_FOR_MINUTES, One)
    IN  IF BigLE(s, U64_MAX) THEN s ELSE U64_MAX

----------------------------------------------------------------------------
(* Inputs: the magnitudes within Spread of each value at which the code's  *)
(* behaviour can change, with either sign, kept when the kind holds them.  *)

Spread == 2

Anchors ==
    { <<>>, BigOfInt(10), BigOfInt(1000), BigOfInt(1000000),
      BigOfInt(1000000000), Pow2(31), Pow2(32), Pow2(63), Pow2(64),
      BigDivSmall(U64_MAX, 60), BigDivSmall(U64_MAX, 3600),
      BigDivSmall(U64_MAX, 86400), BigDivSmall(U64_MAX, 604800) }

Around(a) ==
    { BigAdd(a, BigOfInt(d)) : d \in 0..Spread }
      \cup { BigSub(a, BigOfInt(d)) : d \in { e \in 0..Spread : BigLE(BigOfInt(e), a) } }

Magnitudes == UNION { Around(a) : a \in Anchors }

Inputs(k) ==
    { v \in [neg : BOOLEAN, mag : Magnitudes] :
        InRange(k, v) /\ ~(v.neg /\ v.mag = <<>>) }

Zero == [neg |-> FALSE, mag |-> <<>>]

Init ==
    /\ kind \in Kinds
    /\ n \in Inputs(kind)
    /\ op = "none"
    /\ outcome = NoOutcome
    /\ terms = <<>>
    /\ total = NoOutcome

Seconds ==
    /\ op' = "seconds"
    /\ outcome' = seconds(kind, n)
    /\ UNCHANGED <<kind, n, terms, total>>

Minutes ==
    /\ op' = "minutes"
    /\ outcome' = minutes(kind, n)
    /\ UNCHANGED <<kind, n, terms, total>>

Hours ==
    /\ op' = "hours"
    /\ outcome' = hours(kind, n)
    /\ UNCHANGED <<kind, n, terms, total>>

Days ==
    /\ op' = "days"
    /\ outcome' = days(kind, n)
    /\ UNCHANGED <<kind, n, terms, total>>

Weeks ==
    /\ op' = "weeks"
    /\ outcome' = weeks(kind, n)
    /\ UNCHANGED <<kind, n, terms, total>>

Milliseconds ==
    /\ op' = "milliseconds"
    /\ outcome' = milliseconds(kind, n)
    /\ UNCHANGED <<kind, n, terms, total>>

Microseconds ==
    /\ op' = "microseconds"
    /\ outcome' = microseconds(kind, n)
    /\ UNCHANGED <<kind, n, terms, total>>

Nanoseconds ==
    /\ op' = "nanoseconds"
    /\ outcome' = nanoseconds(kind, n)
    /\ UNCHANGED <<kind, n, terms, total>>

Next ==
    \/ Seconds
    \/ Minutes
    \/ Hours
    \/ Days
    \/ Weeks
    \/ Milliseconds
    \/ Microseconds
    \/ Nanoseconds

Spec == Init /\ [][Next]_vars

----------------------------------------------------------------------------
(* The documented expression a.hours() + b.minutes() + c.seconds().        *)

\* "overflow when adding durations"
S_add_overflow ==
    <<"o", "v", "e", "r", "f", "l", "o", "w", " ", "w", "h", "e", "n", " ", "a", "d", "d", "i", "n", "g", " ", "d", "u", "r", "a", "t", "i", "o", "n", "s">>

\* Duration + Duration with the carry check held to the i64 range
duration_add_i64(x, y) ==
    LET secs == BigAdd(x.secs, y.secs)
        nanos == x.nanos + y.nanos
        carried == IF nanos >= 1000000000 THEN BigAdd(secs, One) ELSE secs
    IN  IF BigLE(carried, I64_MAX)
        THEN Ok([secs |-> carried,
                 nanos |-> IF nanos >= 1000000000 THEN nanos - 1000000000 ELSE nanos])
        ELSE Panic("AddOverflow", S_add_overflow)

\* impl Add for Duration: checked_add(rhs).expect("overflow when adding durations")
duration_add(x, y) ==
    LET secs == BigAdd(x.secs, y.secs)
        nanos == x.nanos + y.nanos
        carried == IF nanos >= 1000000000 THEN BigAdd(secs, One) ELSE secs
    IN  IF BigLE(carried, U64_MAX)
        THEN Ok([secs |-> carried,
                 nanos |-> IF nanos >= 1000000000 THEN nanos - 1000000000 ELSE nanos])
        ELSE Panic("AddOverflow", S_add_overflow)

\* operands left to right; the first panic ends the evaluation
total_time(k, a, b, c) ==
    LET h == hours(k, a)
        m == minutes(k, b)
    IN  IF h.tag = "Panic" THEN h
        ELSE IF m.tag = "Panic" THEN m
        ELSE LET hm == duration_add(h.dur, m.dur)
                 s == seconds(k, c)
             IN  IF hm.tag = "Panic" THEN hm
                 ELSE IF s.tag = "Panic" THEN s
                 ELSE duration_add(hm.dur, s.dur)

SumSmall == 2

SumMagnitudes ==
    { BigOfInt(i) : i \in 0..SumSmall }
      \cup { BigOfInt(15), BigOfInt(30), I32_MAX, U32_MAX, I64_MAX, U64_MAX,
             BigDivSmall(U64_MAX, 60), BigDivSmall(U64_MAX, 3600) }

SumInputs(k) ==
    { v \in [neg : {FALSE}, mag : SumMagnitudes] : InRange(k, v) }

InitSum ==
    /\ kind \in Kinds
    /\ terms \in [a : SumInputs(kind), b : SumInputs(kind), c : SumInputs(kind)]
    /\ total = NoOutcome
    /\ n = Zero
    /\ op = "none"
    /\ outcome = NoOutcome

TotalTime ==
    /\ total' = total_time(kind, terms.a, terms.b, terms.c)
    /\ UNCHANGED <<kind, n, op, outcome, terms>>

NextSum == TotalTime

SpecSum == InitSum /\ [][NextSum]_vars

----------------------------------------------------------------------------
(* Properties.                                                             *)

Called == op # "none"

Call(k, self, u) ==
    CASE u = "seconds" -> seconds(k, self)
      [] u = "minutes" -> minutes(k, self)
      [] u = "hours" -> hours(k, self)
      [] u = "days" -> days(k, self)
      [] u = "weeks" -> weeks(k, self)
      [] u = "milliseconds" -> milliseconds(k, self)
      [] u = "microseconds" -> microseconds(k, self)
      [] u = "nanoseconds" -> nanoseconds(k, self)

SecondUnits == {"seconds", "minutes", "hours", "days", "weeks"}

SubSecondUnits == {"milliseconds", "microseconds", "nanoseconds"}

\* seconds per unit
multiplier(u) ==
    CASE u = "seconds" -> 1
      [] u = "minutes" -> 60
      [] u = "hours" -> 3600
      [] u = "days" -> 86400
      [] u = "weeks" -> 604800

\* nanoseconds per sub-second unit, as a power of Base
SubScale(u) ==
    CASE u = "milliseconds" -> 2
      [] u = "microseconds" -> 1
      [] u = "nanoseconds" -> 0

UnitName(u) ==
    CASE u = "seconds" -> Tail(S_seconds)
      [] u = "minutes" -> Tail(S_minutes)
      [] u = "hours" -> Tail(S_hours)
      [] u = "days" -> Tail(S_days)
      [] u = "weeks" -> Tail(S_weeks)
      [] u = "milliseconds" -> Tail(S_milliseconds)
      [] u = "microseconds" -> Tail(S_microseconds)
      [] u = "nanoseconds" -> Tail(S_nanoseconds)

W_negative == <<"n", "e", "g", "a", "t", "i", "v", "e">>

W_overflow == <<"o", "v", "e", "r", "f", "l", "o", "w">>

Contains(hay, needle) ==
    \E i \in 1..(Len(hay) - Len(needle) + 1) :
        SubSeq(hay, i, i + Len(needle) - 1) = needle

\* the whole span of a Duration in nanoseconds
as_nanos(d) == BigAdd(BigMulBase(d.secs, 3), BigOfInt(d.nanos))

IsOk(o) == o.tag = "Ok"

IsNegativeInput(o) == o.tag = "Panic" /\ o.err = "NegativeInput"

IsOverflow(o) == o.tag = "Panic" /\ o.err = "ArithmeticOverflow"

Fits(self, u) == BigLE(BigMulSmall(self.mag, multiplier(u)), U64_MAX)

\* C1: a non-negative n of any kind whose product with the unit's multiplier
\* fits u64 converts to exactly n * multiplier whole seconds and no
\* sub-second part; n milliseconds, microseconds, nanoseconds convert to
\* exactly that span.
C1_ExactConversion ==
    (Called /\ ~n.neg) =>
        /\ (op \in SecondUnits /\ Fits(n, op)) =>
              outcome = Ok([secs |-> BigMulSmall(n.mag, multiplier(op)), nanos |-> 0])
        /\ op \in SubSecondUnits =>
              /\ IsOk(outcome)
              /\ outcome.dur.nanos < 1000000000
              /\ as_nanos(outcome.dur) = BigMulBase(n.mag, SubScale(op))

C1_Witness ==
    /\ kind = "u64"
    /\ op = "weeks"
    /\ n.mag = BigDivSmall(U64_MAX, 604800)
    /\ IsOk(outcome)
    /\ outcome.dur.secs = BigSub(U64_MAX, BigOfInt(25215))

\* C2: every unit operation on a negative i64 or i32 signals NegativeInput,
\* never ArithmeticOverflow and never a duration.
C2_NegativeRejected ==
    (Called /\ n.neg) => IsNegativeInput(outcome)

C2_Witness ==
    /\ kind = "i64"
    /\ n = [neg |-> TRUE, mag |-> BigOfInt(10)]
    /\ op = "minutes"
    /\ IsNegativeInput(outcome)
    /\ BigLess(U64_MAX, BigMulSmall(as_u64(n), 60))

\* C3: for non-negative n, minutes, hours, days and weeks signal
\* ArithmeticOverflow exactly when n exceeds floor((2^64 - 1) / multiplier),
\* and return a duration otherwise; OVERFLOW_MINUTES.minutes() overflows
\* and MAX_FOR_MINUTES.minutes() does not.
C3_OverflowThreshold ==
    (Called /\ ~n.neg /\ op \in SecondUnits \ {"seconds"}) =>
        /\ IsOverflow(outcome) <=>
              BigLess(BigDivSmall(U64_MAX, multiplier(op)), n.mag)
        /\ IsOverflow(outcome) \/ IsOk(outcome)
        /\ (op = "minutes" /\ n.mag = OVERFLOW_MINUTES) => IsOverflow(outcome)
        /\ (op = "minutes" /\ n.mag = MAX_FOR_MINUTES) => IsOk(outcome)

C3_Witness ==
    /\ kind = "i64"
    /\ op = "minutes"
    /\ n.mag = OVERFLOW_MINUTES
    /\ IsOverflow(outcome)

\* C4: seconds, milliseconds, microseconds and nanoseconds of a non-negative
\* input always return a duration, and u64::MAX.milliseconds() counts
\* u64::MAX milliseconds.
C4_SmallUnitsNeverOverflow ==
    (Called /\ ~n.neg /\ op \in SubSecondUnits \cup {"seconds"}) =>
        /\ IsOk(outcome)
        /\ (kind = "u64" /\ n.mag = U64_MAX /\ op = "milliseconds") =>
              as_millis(outcome.dur) = U64_MAX

C4_Witness ==
    /\ kind = "u64"
    /\ n.mag = U64_MAX
    /\ op = "milliseconds"
    /\ IsOk(outcome)

Wide(k) == IF k = "u32" THEN "u64" ELSE "i64"

\* C5: a call on a 32-bit value has the same outcome, duration or error
\* with its message, as the call on the same value in the 64-bit kind of
\* the same signedness.
C5_CrossWidth ==
    (Called /\ kind \in {"u32", "i32"}) =>
        /\ InRange(Wide(kind), n)
        /\ outcome = Call(Wide(kind), n, op)

C5_Witness ==
    /\ kind = "i32"
    /\ n.neg
    /\ op = "seconds"
    /\ outcome.tag = "Panic"

\* C6: a NegativeInput message contains "negative", the unit's name and the
\* decimal value of n; an ArithmeticOverflow message contains the unit's
\* name, the decimal value of n and "overflow"; (-10).seconds() gives a
\* message containing "negative" and "10".
C6_Messages ==
    (Called /\ outcome.tag = "Panic") =>
        /\ Contains(outcome.msg, UnitName(op))
        /\ Contains(outcome.msg, Display(n))
        /\ IsNegativeInput(outcome) => Contains(outcome.msg, W_negative)
        /\ IsOverflow(outcome) => Contains(outcome.msg, W_overflow)
        /\ (n = [neg |-> TRUE, mag |-> BigOfInt(10)] /\ op = "seconds") =>
              /\ Contains(outcome.msg, W_negative)
              /\ Contains(outcome.msg, <<"1", "0">>)

C6_Witness ==
    /\ kind = "i64"
    /\ n = [neg |-> TRUE, mag |-> BigOfInt(10)]
    /\ op = "hours"
    /\ IsNegativeInput(outcome)

SumSeconds(t) ==
    BigAdd(BigAdd(BigMulSmall(t.a.mag, 3600), BigMulSmall(t.b.mag, 60)), t.c.mag)

\* C7: for non-negative a, b, c with 3600a + 60b + c within u64,
\* a.hours() + b.minutes() + c.seconds() is the duration of exactly
\* 3600a + 60b + c seconds; 2.hours() + 30.minutes() + 15.seconds() is 9015
\* seconds.
C7_SumComposes ==
    (total # NoOutcome /\ BigLE(SumSeconds(terms), U64_MAX)) =>
        /\ total = u64_seconds([neg |-> FALSE, mag |-> SumSeconds(terms)])
        /\ (terms.a.mag = BigOfInt(2) /\ terms.b.mag = BigOfInt(30)
              /\ terms.c.mag = BigOfInt(15)) =>
              total = Ok(from_secs(BigOfInt(9015)))

C7_Witness ==
    /\ terms # <<>>
    /\ terms.a.mag = BigOfInt(2)
    /\ terms.b.mag = BigOfInt(30)
    /\ terms.c.mag = BigOfInt(15)
    /\ total = Ok(from_secs(BigOfInt(9015)))

\* the next smaller unit and the number of it in one of the unit
Lower(u) ==
    CASE u = "weeks" -> "days"
      [] u = "days" -> "hours"
      [] u = "hours" -> "minutes"
      [] u = "minutes" -> "seconds"

Factor(u) ==
    CASE u = "weeks" -> 7
      [] u = "days" -> 24
      [] u = "hours" -> 60
      [] u = "minutes" -> 60

Larger(u) == { v \in SecondUnits : multiplier(v) > multiplier(u) }

\* C10: when n.weeks(), n.days(), n.hours(), n.minutes() return a duration
\* it is the duration of (7n).days(), (24n).hours(), (60n).minutes(),
\* (60n).seconds(), in the same kind when the kind holds the argument and
\* in u64 always; and when n.u() signals ArithmeticOverflow so does n.v()
\* for every larger unit v.
C10_UnitLadder ==
    /\ (Called /\ ~n.neg /\ IsOk(outcome) /\ op \in SecondUnits \ {"seconds"}) =>
          LET m == [neg |-> FALSE, mag |-> BigMulSmall(n.mag, Factor(op))]
          IN  /\ InRange("u64", m)
              /\ Call("u64", m, Lower(op)) = outcome
              /\ InRange(kind, m) => Call(kind, m, Lower(op)) = outcome
    /\ (Called /\ IsOverflow(outcome)) =>
          \A v \in Larger(op) : IsOverflow(Call(kind, n, v))

C10_Witness ==
    /\ kind = "i64"
    /\ op = "days"
    /\ n.mag = BigOfInt(1000)
    /\ IsOk(outcome)
    /\ InRange(kind, [neg |-> FALSE, mag |-> BigMulSmall(n.mag, 24)])

\* C9: every unit operation on a u32 or on a non-negative i32 returns a
\* duration; a 32-bit input fails only as a negative i32, with
\* NegativeInput.
C9_NoOverflowFrom32Bit ==
    (Called /\ kind \in {"u32", "i32"}) =>
        /\ ~IsOverflow(outcome)
        /\ ~n.neg => IsOk(outcome)
        /\ ~IsOk(outcome) => (kind = "i32" /\ n.neg /\ IsNegativeInput(outcome))

C9_Witness ==
    /\ kind = "u32"
    /\ n.mag = U32_MAX
    /\ op = "weeks"
    /\ IsOk(outcome)

====
